---- MODULE Spec2Model ----
(***************************************************************************)
(* A state-machine model of the DictationApp controller                    *)
(* (src/static/js/app.js, with the step-based variant in                   *)
(* src/unnamed/part_001 where a claim names it).                           *)
(*                                                                         *)
(* Conventions.                                                            *)
(*  - A JavaScript string that the code compares, lower-cases or trims is  *)
(*    a sequence of one-character strings; "cat" is <<"c","a","t">>.       *)
(*  - A value that may be null/absent is a sequence of length 0 or 1.      *)
(*  - Array and Set indices are 1-based here (JavaScript's are 0-based).   *)
(*  - A Set is the sequence of its members in insertion order, which is    *)
(*    the order JavaScript iterates it in.                                 *)
(*  - Every await is an interleaving point: the part of a handler before   *)
(*    the await and the part after it are separate actions.                *)
(***************************************************************************)
EXTENDS Integers, Sequences, FiniteSets, TLC

(* ------------------------------ bounds -------------------------------- *)
\* words and sentences of the OCR result on the selection page
MaxWords == 3
MaxSentences == 1
\* words of the OCR result a dictation session is started from
SessionWords == 1
\* pending setTimeout callbacks of one kind
MaxTimers == 2
\* sessions recorded beyond one a day: in a dictation session, while starting
\* one
MaxSessions == 2
StartSessions == 1
\* calendar days the wrong-word book is followed over, and the history
MaxDay == 2
StatDays == 32
\* reviewCount of a wrong-word entry
MaxReview == 1

(* ------------------------- program constants -------------------------- *)
GuestMax == 2
LoggedInMax == 20
HistoryCap == 30
DisplayCap == 20

(* ------------------------------ strings -------------------------------- *)
Upper == <<"A","B","C","D","E","F","G","H","I","J","K","L","M",
           "N","O","P","Q","R","S","T","U","V","W","X","Y","Z">>
LowerLetters == <<"a","b","c","d","e","f","g","h","i","j","k","l","m",
           "n","o","p","q","r","s","t","u","v","w","x","y","z">>

\* String.prototype.toLowerCase on one character: A-Z go to a-z, every other
\* character stays
UpperSet == {Upper[k] : k \in 1..26}
LowerMap == [c \in UpperSet |-> LowerLetters[CHOOSE k \in 1..26 : Upper[k] = c]]
LowerChar(c) == IF c \in UpperSet THEN LowerMap[c] ELSE c

\* String.prototype.toLowerCase
toLowerCase(s) == [k \in 1..Len(s) |-> LowerChar(s[k])]

\* texts the OCR service may return
TxtCat == <<"c","a","t">>
TxtCatCap == <<"C","a","t">>
TxtDog == <<"d","o","g">>
TxtRun == <<"I"," ","r","u","n">>
NoAnswer == <<"-">>   \* the "no answer" sentinel the code stores for an empty answer
Empty == <<>>         \* the empty string ''

(* ------------------------------ numbers -------------------------------- *)
\* a JavaScript number the code obtains from parseInt: an integer or NaN
Num(n) == [nan |-> FALSE, n |-> n]
NaN == [nan |-> TRUE, n |-> 0]

Digits == <<"0","1","2","3","4","5","6","7","8","9">>
IsDigit(c) == \E k \in 1..10 : Digits[k] = c
DigitVal(c) == (CHOOSE k \in 1..10 : Digits[k] = c) - 1

RECURSIVE ParseDigits(_, _, _)
ParseDigits(s, k, acc) ==
    IF k > Len(s) \/ ~IsDigit(s[k]) THEN acc
    ELSE ParseDigits(s, k + 1, acc * 10 + DigitVal(s[k]))

RECURSIVE SkipSpaces(_)
SkipSpaces(s) == IF s # <<>> /\ Head(s) = " " THEN SkipSpaces(Tail(s)) ELSE s

\* parseInt(string): leading blanks, an optional sign, then decimal digits up to
\* the first other character; NaN when no digit is found
parseInt(str) ==
    LET t == SkipSpaces(str)
        signed == t # <<>> /\ Head(t) \in {"-", "+"}
        d == IF signed THEN Tail(t) ELSE t
    IN  IF d = <<>> \/ ~IsDigit(Head(d)) THEN NaN
        ELSE IF signed /\ Head(t) = "-" THEN Num(0 - ParseDigits(d, 1, 0))
        ELSE Num(ParseDigits(d, 1, 0))

(* ------------------------------ state ---------------------------------- *)
VARIABLES
    \* localStorage documents (absent = <<>>, present = <<doc>>)
    lsSettings, lsStatistics, lsWrongWords, lsCurrentUser,
    \* the controller's fields
    allWords, allSentences, recognizedText, imageData,
    selectedWordIndices, selectedSentenceIndices,
    isLoggedIn, maxWordSelection, maxSentenceSelection,
    darkMode, speechRate, voiceId, autoPlay, dictationAutoPlay,
    wrongWords, statistics,
    items, results, currentIndex, dictationMode,
    ttsCache, isPlaying, currentPage,
    \* the page outside the controller
    loading,        \* the loading overlay is shown
    audio,          \* the shared <audio> element
    resultsPage,    \* what finishDictation wrote to the results page
    posted,         \* the last practice record sent to /api/practice/record
    \* the environment
    today,          \* the calendar day new Date() falls in
    timers,         \* pending setTimeout callbacks, by kind
    ttsInflight,    \* unresolved /api/tts/batch requests
    authInflight,   \* unresolved /auth/login and /auth/logout requests
    readers,        \* FileReaders still reading, each with its file
    ocrInflight,    \* unresolved /api/ocr requests, each with its image
    slowMode,       \* the controller's slowMode field
    previewInflight,  \* unresolved /api/tts requests of playItemAudio
    finishRuns      \* finishDictation runs since the current session started

storageVars == <<lsSettings, lsStatistics, lsWrongWords, lsCurrentUser>>
contentVars == <<allWords, allSentences>>
ocrVars == <<recognizedText, imageData, readers, ocrInflight>>
previewVars == <<slowMode, previewInflight>>
selVars == <<selectedWordIndices, selectedSentenceIndices>>
authVars == <<isLoggedIn, maxWordSelection, maxSentenceSelection>>
settingsVars == <<darkMode, speechRate, voiceId, autoPlay>>
sessionVars == <<items, results, currentIndex, dictationMode>>
bookVars == <<wrongWords>>
statVars == <<statistics>>
playVars == <<isPlaying, audio, dictationAutoPlay>>
outVars == <<resultsPage, posted>>
envVars == <<today, timers, ttsInflight, authInflight>>

vars == <<storageVars, contentVars, ocrVars, previewVars,
          selVars, authVars, settingsVars, sessionVars,
          bookVars, statVars, playVars, outVars, envVars,
          ttsCache, currentPage, loading, finishRuns>>

(* --------------------------- construction ------------------------------ *)
DefaultVoice == <<"n","a","t","a","l","i","e">>
NoTimers == [advance |-> 0, play |-> 0, autoNext |-> 0]
SilentAudio == [src |-> <<>>, playing |-> FALSE, hooked |-> FALSE]
EmptyStatistics == [sessions |-> 0, correct |-> 0, wrong |-> 0, history |-> <<>>]

\* JSON.parse(localStorage.getItem('dictationStatistics') || '{"sessions": 0, ...}')
loadStatistics(doc) == IF doc = <<>> THEN EmptyStatistics ELSE doc[1]

\* the fields the constructor sets that no stored document decides
ConstructorFields ==
    /\ selectedWordIndices = <<>> /\ selectedSentenceIndices = <<>>
    /\ dictationAutoPlay = FALSE
    /\ wrongWords = <<>>
    /\ items = <<>> /\ results = <<>> /\ currentIndex = 1
    /\ dictationMode = "words"
    /\ ttsCache = {}
    /\ isPlaying = FALSE
    /\ loading = FALSE
    /\ audio = SilentAudio
    /\ resultsPage = <<>> /\ posted = <<>>
    /\ timers = NoTimers /\ ttsInflight = <<>> /\ authInflight = <<>>
    /\ recognizedText = <<>> /\ imageData = <<>>
    /\ readers = <<>> /\ ocrInflight = <<>>
    /\ slowMode = FALSE /\ previewInflight = <<>>
    /\ finishRuns = 0

\* a first visit: nothing stored, a guest, the default settings
FirstVisit ==
    /\ lsSettings = <<>> /\ lsStatistics = <<>> /\ lsWrongWords = <<>>
    /\ lsCurrentUser = FALSE
    /\ isLoggedIn = FALSE
    /\ maxWordSelection = GuestMax /\ maxSentenceSelection = GuestMax
    /\ darkMode = FALSE /\ speechRate = Num(0) /\ voiceId = DefaultVoice /\ autoPlay = FALSE
    /\ statistics = EmptyStatistics
    /\ today = 1

(* ------------------------------ settings ------------------------------- *)
\* JSON.stringify of a number: NaN and the infinities are written as null
JsonNumber(x) == IF x.nan THEN <<>> ELSE <<x.n>>

\* the document saveSettings writes: JSON.stringify({darkMode, speechRate, ...})
SettingsDoc(dm, rate, voice, ap) ==
    [darkMode |-> dm, speechRate |-> JsonNumber(rate), voiceId |-> voice,
     autoPlay |-> ap]

\* loadSettings: JSON.parse(getItem('dictationSettings') || '{}'), then
\* field || default for each of the four fields
LoadedDarkMode(doc) == IF doc = <<>> THEN FALSE ELSE (doc[1].darkMode \/ FALSE)
\* the speech rate read with 1 as its fallback
LoadedRateOrOne(doc) ==
    IF doc = <<>> \/ doc[1].speechRate = <<>> \/ doc[1].speechRate = <<0>>
    THEN [nan |-> FALSE, n |-> 1] ELSE [nan |-> FALSE, n |-> doc[1].speechRate[1]]

LoadedSpeechRate(doc) ==
    IF doc = <<>> \/ doc[1].speechRate = <<>> \/ doc[1].speechRate = <<0>>
    THEN Num(0) ELSE Num(doc[1].speechRate[1])
LoadedVoiceId(doc) ==
    IF doc = <<>> \/ doc[1].voiceId = Empty THEN DefaultVoice ELSE doc[1].voiceId
LoadedAutoPlay(doc) == IF doc = <<>> THEN FALSE ELSE (doc[1].autoPlay \/ FALSE)

loadSettings(doc) ==
    <<LoadedDarkMode(doc), LoadedSpeechRate(doc), LoadedVoiceId(doc),
      LoadedAutoPlay(doc)>>

\* the values the speed slider (an <input type=range>) and the voice <select>
\* hand to setSpeechRate and setVoiceId
SliderValues == {<<"-","1","0">>, <<"0">>, <<"5">>, <<"1","5">>}
OtherVoice == <<"k","e","n">>
VoiceOptions == {DefaultVoice, OtherVoice}

\* every handler below ends in saveSettings()
SaveSettingsUnchanged ==
    UNCHANGED <<lsStatistics, lsWrongWords, lsCurrentUser, contentVars, ocrVars, previewVars,
                selVars,
                authVars, sessionVars, bookVars, statVars, playVars, outVars,
                envVars, ttsCache, currentPage, loading, finishRuns>>

toggleDarkMode ==
    /\ darkMode' = ~darkMode
    /\ UNCHANGED <<speechRate, voiceId, autoPlay>>
    /\ lsSettings' = <<SettingsDoc(darkMode', speechRate, voiceId, autoPlay)>>
    /\ SaveSettingsUnchanged

setSpeechRate(rate) ==
    /\ speechRate' = parseInt(rate)
    /\ UNCHANGED <<darkMode, voiceId, autoPlay>>
    /\ lsSettings' = <<SettingsDoc(darkMode, speechRate', voiceId, autoPlay)>>
    /\ SaveSettingsUnchanged

setVoiceId(v) ==
    /\ voiceId' = v
    /\ UNCHANGED <<darkMode, speechRate, autoPlay>>
    /\ lsSettings' = <<SettingsDoc(darkMode, speechRate, voiceId', autoPlay)>>
    /\ SaveSettingsUnchanged

toggleAutoPlay ==
    /\ autoPlay' = ~autoPlay
    /\ UNCHANGED <<darkMode, speechRate, voiceId>>
    /\ lsSettings' = <<SettingsDoc(darkMode, speechRate, voiceId, autoPlay')>>
    /\ SaveSettingsUnchanged

(* ------------------------------- reload -------------------------------- *)
\* the page is loaded again: a new DictationApp is constructed and init() runs.
\* Timers and requests of the old page die with it; localStorage stays.
Reload ==
    /\ allWords' = <<>> /\ allSentences' = <<>>
    /\ selectedWordIndices' = <<>> /\ selectedSentenceIndices' = <<>>
    /\ dictationAutoPlay' = FALSE
    /\ wrongWords' = <<>>
    /\ statistics' = loadStatistics(lsStatistics)
    /\ items' = <<>> /\ results' = <<>> /\ currentIndex' = 1
    /\ dictationMode' = "words"
    /\ ttsCache' = {}
    /\ isPlaying' = FALSE
    /\ currentPage' = "page-home"
    /\ loading' = FALSE
    /\ audio' = SilentAudio
    /\ resultsPage' = <<>> /\ posted' = <<>>
    /\ timers' = NoTimers /\ ttsInflight' = <<>> /\ authInflight' = <<>>
    /\ recognizedText' = <<>> /\ imageData' = <<>>
    /\ readers' = <<>> /\ ocrInflight' = <<>>
    /\ slowMode' = FALSE /\ previewInflight' = <<>>
    /\ finishRuns' = 0
    \* loadSettings
    /\ darkMode' = LoadedDarkMode(lsSettings)
    /\ speechRate' = LoadedSpeechRate(lsSettings)
    /\ voiceId' = LoadedVoiceId(lsSettings)
    /\ autoPlay' = LoadedAutoPlay(lsSettings)
    \* checkAuthStatus
    /\ isLoggedIn' = lsCurrentUser
    /\ maxWordSelection' = IF lsCurrentUser THEN LoggedInMax ELSE GuestMax
    /\ maxSentenceSelection' = IF lsCurrentUser THEN LoggedInMax ELSE GuestMax
    /\ UNCHANGED <<storageVars, today>>

(* ------------------------- selection and login -------------------------- *)
\* user-driven handlers run only while the loading overlay is hidden
UserCanAct == ~loading

SeqRemove(s, x) == SelectSeq(s, LAMBDA y : y # x)
SeqHas(s, x) == \E k \in 1..Len(s) : s[k] = x

\* Set.prototype toggle with eviction of the oldest member at the cap
EvictToggle(sel, index, cap) ==
    IF SeqHas(sel, index) THEN SeqRemove(sel, index)
    ELSE IF Len(sel) >= cap
         THEN Append(SeqRemove(sel, Head(sel)), index)
         ELSE Append(sel, index)

\* the indices renderSelectionList draws a button for
Shown(list) == 1..(IF Len(list) < DisplayCap THEN Len(list) ELSE DisplayCap)

toggleWordSelection(index) ==
    /\ index \in Shown(allWords)
    /\ selectedWordIndices' = EvictToggle(selectedWordIndices, index, maxWordSelection)
    /\ UNCHANGED <<selectedSentenceIndices, storageVars, contentVars, ocrVars, previewVars,
                   authVars,
                   settingsVars, sessionVars, bookVars, statVars, playVars, outVars,
                   envVars, ttsCache, currentPage, loading, finishRuns>>

toggleSentenceSelection(index) ==
    /\ index \in Shown(allSentences)
    /\ selectedSentenceIndices' =
           EvictToggle(selectedSentenceIndices, index, maxSentenceSelection)
    /\ UNCHANGED <<selectedWordIndices, storageVars, contentVars, ocrVars, previewVars,
                   authVars,
                   settingsVars, sessionVars, bookVars, statVars, playVars, outVars,
                   envVars, ttsCache, currentPage, loading, finishRuns>>

\* loginWithEmail up to its await: the overlay goes up and the request leaves
loginWithEmail ==
    /\ Len(authInflight) < 1
    /\ loading' = TRUE
    /\ authInflight' = Append(authInflight, "login")
    /\ UNCHANGED <<storageVars, contentVars, ocrVars, previewVars,
                   selVars, authVars, settingsVars,
                   sessionVars, bookVars, statVars, playVars, outVars,
                   today, timers, ttsInflight, ttsCache, currentPage, finishRuns>>

\* confirmLogout up to its await (app.js shows no overlay)
confirmLogout ==
    /\ Len(authInflight) < 1
    /\ authInflight' = Append(authInflight, "logout")
    /\ UNCHANGED <<storageVars, contentVars, ocrVars, previewVars,
                   selVars, authVars, settingsVars,
                   sessionVars, bookVars, statVars, playVars, outVars,
                   today, timers, ttsInflight, ttsCache, currentPage, loading,
                   finishRuns>>

\* loginWithEmail after its await; ok = data.success (updateUserDisplay on success)
LoginResponse(ok) ==
    /\ authInflight # <<>> /\ Head(authInflight) = "login"
    /\ authInflight' = Tail(authInflight)
    /\ loading' = FALSE
    /\ IF ok
       THEN /\ isLoggedIn' = TRUE
            /\ maxWordSelection' = LoggedInMax
            /\ maxSentenceSelection' = LoggedInMax
            /\ lsCurrentUser' = TRUE
       ELSE UNCHANGED <<authVars, lsCurrentUser>>
    /\ UNCHANGED <<lsSettings, lsStatistics, lsWrongWords, contentVars, ocrVars, previewVars,
                   selVars,
                   settingsVars, sessionVars, bookVars, statVars, playVars, outVars,
                   today, timers, ttsInflight, ttsCache, currentPage, finishRuns>>

\* confirmLogout after its await; ok = response.redirected || response.ok
LogoutResponse(ok) ==
    /\ authInflight # <<>> /\ Head(authInflight) = "logout"
    /\ authInflight' = Tail(authInflight)
    /\ IF ok
       THEN /\ lsCurrentUser' = FALSE
            /\ isLoggedIn' = FALSE
            /\ maxWordSelection' = GuestMax
            /\ maxSentenceSelection' = GuestMax
            /\ currentPage' = "page-home"
       ELSE UNCHANGED <<authVars, lsCurrentUser, currentPage>>
    /\ UNCHANGED <<lsSettings, lsStatistics, lsWrongWords, contentVars, ocrVars, previewVars,
                   selVars,
                   settingsVars, sessionVars, bookVars, statVars, playVars, outVars,
                   today, timers, ttsInflight, ttsCache, loading, finishRuns>>

(* ----------------------------- wrong words ----------------------------- *)
\* the lookup without toLowerCase
InBookExact(book, word) == \E k \in 1..Len(book) : book[k].word = word

\* wrongWords.find(w => w.word.toLowerCase() === word.toLowerCase())
InBook(book, word) ==
    \E k \in 1..Len(book) : toLowerCase(book[k].word) = toLowerCase(word)

\* the list addWrongWord leaves behind; now is the day new Date() falls in
AddedTo(book, word, meaning, userAnswer, now) ==
    IF InBook(book, word) THEN book
    ELSE Append(book, [word |-> word, meaning |-> meaning,
                       userAnswer |-> userAnswer, addedAt |-> now,
                       reviewCount |-> 0])

\* addWrongWord; saveWrongWords runs only on the branch that pushed
addWrongWord(word, meaning, userAnswer) ==
    /\ wrongWords' = AddedTo(wrongWords, word, meaning, userAnswer, today)
    /\ lsWrongWords' = IF InBook(wrongWords, word) THEN lsWrongWords
                       ELSE <<wrongWords'>>
    /\ UNCHANGED <<lsSettings, lsStatistics, lsCurrentUser, contentVars, ocrVars, previewVars,
                   selVars,
                   authVars, settingsVars, sessionVars, statVars, playVars,
                   outVars, envVars, ttsCache, currentPage, loading, finishRuns>>

\* removeWrongWord(index): the button of a rendered entry
removeWrongWord(index) ==
    /\ index \in 1..Len(wrongWords)
    /\ wrongWords' = SubSeq(wrongWords, 1, index - 1)
                        \o SubSeq(wrongWords, index + 1, Len(wrongWords))
    /\ lsWrongWords' = <<wrongWords'>>
    /\ UNCHANGED <<lsSettings, lsStatistics, lsCurrentUser, contentVars, ocrVars, previewVars,
                   selVars,
                   authVars, settingsVars, sessionVars, statVars, playVars,
                   outVars, envVars, ttsCache, currentPage, loading, finishRuns>>

\* clearWrongWords, the confirm() answered with OK
clearWrongWords ==
    /\ wrongWords' = <<>>
    /\ lsWrongWords' = <<wrongWords'>>
    /\ UNCHANGED <<lsSettings, lsStatistics, lsCurrentUser, contentVars, ocrVars, previewVars,
                   selVars,
                   authVars, settingsVars, sessionVars, statVars, playVars,
                   outVars, envVars, ttsCache, currentPage, loading, finishRuns>>

(* ------------------------------ statistics ------------------------------ *)
HasEntry(history, day) == \E k \in 1..Len(history) : history[k].date = day
EntryIndex(history, day) ==
    CHOOSE k \in 1..Len(history) :
        /\ history[k].date = day
        /\ \A j \in 1..(k - 1) : history[j].date # day

\* history.find(h => h.date === today), then += on it or push
Bucketed(history, day, correct, wrong) ==
    IF HasEntry(history, day)
    THEN [history EXCEPT ![EntryIndex(history, day)] =
              [date |-> day, correct |-> @.correct + correct,
               wrong |-> @.wrong + wrong]]
    ELSE Append(history, [date |-> day, correct |-> correct, wrong |-> wrong])

\* the trim with the comparison off by one
TrimmedLate(history) ==
    IF Len(history) > HistoryCap + 1
    THEN SubSeq(history, Len(history) - HistoryCap + 1, Len(history))
    ELSE history

\* if (history.length > 30) history = history.slice(-30)
Trimmed(history) ==
    IF Len(history) > HistoryCap
    THEN SubSeq(history, Len(history) - HistoryCap + 1, Len(history))
    ELSE history

recordSession(stats, day, correct, wrong) ==
    [sessions |-> stats.sessions + 1,
     correct |-> stats.correct + correct,
     wrong |-> stats.wrong + wrong,
     history |-> Trimmed(Bucketed(stats.history, day, correct, wrong))]

\* Math.round(part / whole * 100) for whole > 0 (halves round up)
RoundPct(part, whole) == (200 * part + whole) \div (2 * whole)

CountOf(rs, v) == Cardinality({k \in 1..Len(rs) : rs[k].isCorrect = v})

\* the body sent by recordPracticeSession(correct, wrong)
PracticeRecord(correct, wrong) ==
    [total_items |-> correct + wrong, correct_count |-> correct,
     wrong_count |-> wrong,
     accuracy |-> IF correct + wrong > 0 THEN RoundPct(correct, correct + wrong)
                  ELSE 0]

\* the number finishDictation writes to #accuracy-display
ShownAccuracy(rs) ==
    IF Len(rs) > 0 THEN RoundPct(CountOf(rs, "true"), Len(rs)) ELSE 0

\* the sessions recorded so far stay below one a day plus limit
SessionBudget(limit) == statistics.sessions < (today - 1) + limit

\* finishDictation: the counts, recordSession (which saves), the POST of a
\* logged-in user, the results page
finishDictation ==
    /\ statistics' = recordSession(statistics, today, CountOf(results, "true"),
                                   CountOf(results, "false"))
    /\ lsStatistics' = <<statistics'>>
    /\ posted' = IF isLoggedIn
                 THEN <<PracticeRecord(CountOf(results, "true"),
                                       CountOf(results, "false"))>>
                 ELSE posted
    /\ resultsPage' = <<[accuracy |-> ShownAccuracy(results),
                         perfect |-> CountOf(results, "true"),
                         review |-> CountOf(results, "false")]>>
    /\ currentPage' = "page-results"
    /\ finishRuns' = finishRuns + 1

\* showResultsDemo: finishDictation on whatever results are there
showResultsDemo(limit) ==
    /\ SessionBudget(limit)
    /\ finishDictation
    /\ UNCHANGED <<lsSettings, lsWrongWords, lsCurrentUser, contentVars, ocrVars, previewVars,
                   selVars,
                   authVars, settingsVars, sessionVars, bookVars, playVars,
                   envVars, ttsCache, loading>>

\* midnight passes
DayPasses(lastDay) ==
    /\ today < lastDay
    /\ today' = today + 1
    /\ UNCHANGED <<storageVars, contentVars, ocrVars, previewVars,
                   selVars, authVars, settingsVars,
                   sessionVars, bookVars, statVars, playVars, outVars,
                   timers, ttsInflight, authInflight, ttsCache, currentPage,
                   loading, finishRuns>>

(* ------------------------------- session ------------------------------- *)
\* ttsCache is a Map from text to URL, held as a set of [text, url] pairs
CacheHas(cache, text) == \E e \in cache : e.text = text
\* ttsCache.get(text) || null
CacheGet(cache, text) ==
    IF CacheHas(cache, text)
    THEN <<(CHOOSE e \in cache : e.text = text).url>> ELSE <<>>
\* a set that stores nothing
CacheSetNothing(cache, text, url) == cache
\* ttsCache.set(text, url)
CacheSet(cache, text, url) ==
    {e \in cache : e.text # text} \cup {[text |-> text, url |-> url]}

\* the URL /api/tts/batch answers with: the audio of one text at one rate
AudioUrl(text, rate) == [text |-> text, rate |-> rate]

\* one dictation item; text is its word or sentence field, id stands for the
\* string `word_${index}` or `sentence_${index}`
WordItem(i) ==
    [text |-> allWords[i].text, meaning |-> allWords[i].meaning, type |-> "word",
     id |-> <<"word", i>>, audio |-> CacheGet(ttsCache, allWords[i].text)]
SentenceItem(i) ==
    [text |-> allSentences[i].text, meaning |-> allSentences[i].meaning,
     type |-> "sentence", id |-> <<"sentence", i>>,
     audio |-> CacheGet(ttsCache, allSentences[i].text)]

\* allItems of generateAndStart: every word, then every sentence
AllItems ==
    [i \in 1..Len(allWords) |-> WordItem(i)]
        \o [i \in 1..Len(allSentences) |-> SentenceItem(i)]

\* selectedItems of startDictationFromSelection, in insertion order of the Sets
SelectedItems ==
    [k \in 1..Len(selectedWordIndices) |-> WordItem(selectedWordIndices[k])]
        \o [k \in 1..Len(selectedSentenceIndices) |->
                SentenceItem(selectedSentenceIndices[k])]

\* a selected index with no entry behind it: allWords[index] is undefined and
\* startDictationFromSelection throws before it has changed anything
StaleSelection ==
    \/ \E k \in 1..Len(selectedWordIndices) :
          selectedWordIndices[k] \notin 1..Len(allWords)
    \/ \E k \in 1..Len(selectedSentenceIndices) :
          selectedSentenceIndices[k] \notin 1..Len(allSentences)

\* results built from the items that still need audio instead of from all
ResultsOfPending(its) ==
    [k \in 1..Len(SelectSeq(its, LAMBDA it : it.audio = <<>>)) |->
        [text |-> its[k].text, meaning |-> its[k].meaning, type |-> its[k].type,
         id |-> its[k].id, audio |-> its[k].audio,
         userAnswer |-> Empty, isCorrect |-> "null"]]

\* items.map(item => ({...item, userAnswer: '', isCorrect: null}))
FreshResults(its) ==
    [k \in 1..Len(its) |->
        [text |-> its[k].text, meaning |-> its[k].meaning, type |-> its[k].type,
         id |-> its[k].id, audio |-> its[k].audio,
         userAnswer |-> Empty, isCorrect |-> "null"]]

\* items.filter(item => !item.audio_url)
NeedsAudio(its) == SelectSeq(its, LAMBDA it : it.audio = <<>>)

\* the body generateMissingAudio posts, with the continuation that awaits it
TtsRequest(kind, its) ==
    [kind |-> kind,
     req |-> [k \in 1..Len(NeedsAudio(its)) |->
                 [id |-> NeedsAudio(its)[k].id, text |-> NeedsAudio(its)[k].text]],
     rate |-> speechRate]

\* data.results.forEach: the first item with the result's id gets the URL, and
\* the cache gets it under that item's text; good = the results with success
RECURSIVE ApplyResults(_, _, _, _, _, _)
ApplyResults(its, cache, req, rate, good, k) ==
    IF k > Len(req) THEN [items |-> its, cache |-> cache]
    ELSE LET hit == {j \in 1..Len(its) : its[j].id = req[k].id}
         IN  IF hit = {} \/ k \notin good
             THEN ApplyResults(its, cache, req, rate, good, k + 1)
             ELSE LET j == CHOOSE x \in hit : \A y \in hit : x <= y
                      url == AudioUrl(req[k].text, rate)
                  IN  ApplyResults([its EXCEPT ![j].audio = <<url>>],
                                   CacheSet(cache, its[j].text, url),
                                   req, rate, good, k + 1)

\* updateDictationUI: an out-of-range cursor of a non-empty list goes to the start
UiIndex(its, idx) ==
    IF Len(its) > 0 /\ idx \notin 1..Len(its) THEN 1 ELSE idx

\* setTimeout(() => this.playCurrentAudio(), 500) when on is true
PlayScheduled(on) == [timers EXCEPT !.play = @ + (IF on THEN 1 ELSE 0)]

generateAndStart ==
    /\ AllItems # <<>>
    /\ autoPlay => timers.play < MaxTimers
    /\ items' = AllItems
    /\ currentIndex' = 1
    /\ results' = FreshResults(AllItems)
    /\ finishRuns' = 0
    /\ IF NeedsAudio(AllItems) # <<>>
       THEN /\ loading' = TRUE
            /\ ttsInflight' = Append(ttsInflight, TtsRequest("generateAndStart", AllItems))
            /\ UNCHANGED <<currentPage, timers>>
       ELSE /\ currentPage' = "page-dictation"
            /\ timers' = PlayScheduled(autoPlay)
            /\ UNCHANGED <<loading, ttsInflight>>
    /\ UNCHANGED <<storageVars, contentVars, ocrVars, previewVars,
                   selVars, authVars, settingsVars,
                   dictationMode, bookVars, statVars, playVars, outVars, today,
                   authInflight, ttsCache>>

startDictationFromSelection ==
    IF StaleSelection
    THEN UNCHANGED vars
    ELSE /\ SelectedItems # <<>>
         /\ autoPlay => timers.play < MaxTimers
         /\ items' = SelectedItems
         /\ currentIndex' = 1
         /\ dictationMode' = SelectedItems[1].type
         /\ IF NeedsAudio(SelectedItems) # <<>>
            THEN /\ loading' = TRUE
                 /\ ttsInflight' = Append(ttsInflight,
                        TtsRequest("startDictationFromSelection", SelectedItems))
                 /\ UNCHANGED <<results, currentPage, timers, finishRuns>>
            ELSE /\ results' = FreshResults(SelectedItems)
                 /\ finishRuns' = 0
                 /\ currentPage' = "page-dictation"
                 /\ timers' = PlayScheduled(autoPlay)
                 /\ UNCHANGED <<loading, ttsInflight>>
         /\ UNCHANGED <<storageVars, contentVars, ocrVars, previewVars,
                        selVars, authVars, settingsVars,
                        bookVars, statVars, playVars, outVars, today, authInflight,
                        ttsCache>>

\* generateMissingAudio after its await, and the rest of the handler that
\* awaited it. ok = the fetch resolved with data.success; good = the positions
\* of the request whose result has success
TtsResponse(i, ok, good) ==
    LET rq == ttsInflight[i]
        done == IF ok THEN ApplyResults(items, ttsCache, rq.req, rq.rate, good, 1)
                ELSE [items |-> items, cache |-> ttsCache]
        starts == rq.kind \in {"generateAndStart", "startDictationFromSelection"}
    IN  /\ (starts /\ autoPlay) => timers.play < MaxTimers
        /\ ttsInflight' = SubSeq(ttsInflight, 1, i - 1)
                             \o SubSeq(ttsInflight, i + 1, Len(ttsInflight))
        /\ items' = done.items
        /\ ttsCache' = done.cache
        /\ loading' = FALSE
        /\ IF rq.kind = "startDictationFromSelection"
           THEN results' = FreshResults(done.items) /\ finishRuns' = 0
           ELSE UNCHANGED <<results, finishRuns>>
        /\ currentIndex' = UiIndex(done.items, currentIndex)
        /\ currentPage' = "page-dictation"
        /\ timers' = PlayScheduled(starts /\ autoPlay)
        /\ UNCHANGED <<storageVars, contentVars, ocrVars, previewVars,
                       selVars, authVars, settingsVars,
                       dictationMode, bookVars, statVars, playVars, outVars, today,
                       authInflight>>

\* results[currentIndex] is undefined: markAnswer's first assignment throws
MarkAnswerThrows == currentIndex \notin 1..Len(results)

\* markAnswer up to its setTimeout(..., 800); a throw ends the handler with
\* nothing changed
markAnswer(isCorrect) ==
    IF MarkAnswerThrows
    THEN UNCHANGED vars
    ELSE LET r == results[currentIndex]
             answer == IF r.userAnswer = Empty THEN NoAnswer ELSE r.userAnswer
         IN  /\ timers.advance < MaxTimers
             /\ results' = [results EXCEPT ![currentIndex] =
                    [r EXCEPT !.isCorrect = IF isCorrect THEN "true" ELSE "false",
                              !.userAnswer = answer]]
             /\ IF isCorrect
                THEN UNCHANGED <<wrongWords, lsWrongWords>>
                ELSE /\ wrongWords' = AddedTo(wrongWords, r.text, r.meaning, answer,
                                              today)
                     /\ lsWrongWords' = IF InBook(wrongWords, r.text)
                                        THEN lsWrongWords ELSE <<wrongWords'>>
             /\ timers' = [timers EXCEPT !.advance = @ + 1]
             /\ UNCHANGED <<lsSettings, lsStatistics, lsCurrentUser, contentVars, ocrVars, previewVars,
                            selVars, authVars, settingsVars, items, currentIndex,
                            dictationMode, statVars, playVars, outVars, today,
                            ttsInflight, authInflight, ttsCache, currentPage,
                            loading, finishRuns>>

\* the callback markAnswer scheduled: the next item, or finishDictation
AdvanceTimer(limit) ==
    /\ timers.advance > 0
    /\ IF currentIndex < Len(items)
       THEN /\ (autoPlay \/ dictationAutoPlay) => timers.play < MaxTimers
            /\ currentIndex' = UiIndex(items, currentIndex + 1)
            /\ timers' = [PlayScheduled(autoPlay \/ dictationAutoPlay)
                             EXCEPT !.advance = @ - 1]
            /\ UNCHANGED <<lsStatistics, statVars, outVars, currentPage, finishRuns>>
       ELSE /\ SessionBudget(limit)
            /\ finishDictation
            /\ timers' = [timers EXCEPT !.advance = @ - 1]
            /\ UNCHANGED currentIndex
    /\ UNCHANGED <<lsSettings, lsWrongWords, lsCurrentUser, contentVars, ocrVars, previewVars,
                   selVars,
                   authVars, settingsVars, items, results, dictationMode, bookVars,
                   playVars, today, ttsInflight, authInflight, ttsCache, loading>>

prevItem ==
    /\ currentIndex > 1
    /\ currentIndex' = UiIndex(items, currentIndex - 1)
    /\ UNCHANGED <<storageVars, contentVars, ocrVars, previewVars,
                   selVars, authVars, settingsVars,
                   items, results, dictationMode, bookVars, statVars, playVars,
                   outVars, envVars, ttsCache, currentPage, loading, finishRuns>>

nextItem ==
    /\ currentIndex < Len(items)
    /\ currentIndex' = UiIndex(items, currentIndex + 1)
    /\ UNCHANGED <<storageVars, contentVars, ocrVars, previewVars,
                   selVars, authVars, settingsVars,
                   items, results, dictationMode, bookVars, statVars, playVars,
                   outVars, envVars, ttsCache, currentPage, loading, finishRuns>>

\* switchAudioMode(mode): keep the items of the type, restart on them
switchAudioMode(mode) ==
    /\ dictationMode' = mode
    /\ items' = SelectSeq(items, LAMBDA it : it.type = mode)
    /\ currentIndex' = 1
    /\ results' = FreshResults(items')
    /\ finishRuns' = 0
    /\ UNCHANGED <<storageVars, contentVars, ocrVars, previewVars,
                   selVars, authVars, settingsVars,
                   bookVars, statVars, playVars, outVars, envVars, ttsCache,
                   currentPage, loading>>

\* practiceWrongWords up to the request: the book becomes the session, every
\* entry's reviewCount goes up and the book is saved
PracticeItems(book, cache) ==
    [i \in 1..Len(book) |->
        [text |-> book[i].word, meaning |-> book[i].meaning, type |-> "word",
         id |-> <<"n", i>>, audio |-> CacheGet(cache, book[i].word)]]

practiceWrongWords ==
    /\ wrongWords # <<>>
    /\ \A k \in 1..Len(wrongWords) : wrongWords[k].reviewCount < MaxReview
    /\ items' = PracticeItems(wrongWords, ttsCache)
    /\ wrongWords' = [k \in 1..Len(wrongWords) |->
                         [wrongWords[k] EXCEPT !.reviewCount = @ + 1]]
    /\ lsWrongWords' = <<wrongWords'>>
    /\ currentIndex' = 1
    /\ results' = FreshResults(items')
    /\ finishRuns' = 0
    /\ IF NeedsAudio(items') # <<>>
       THEN /\ loading' = TRUE
            /\ ttsInflight' = Append(ttsInflight,
                                     TtsRequest("practiceWrongWords", items'))
            /\ UNCHANGED currentPage
       ELSE /\ currentPage' = "page-dictation"
            /\ UNCHANGED <<loading, ttsInflight>>
    /\ UNCHANGED <<lsSettings, lsStatistics, lsCurrentUser, contentVars, ocrVars, previewVars,
                   selVars,
                   authVars, settingsVars, dictationMode, statVars, playVars,
                   outVars, today, timers, authInflight, ttsCache>>

(* the selection page after an OCR result of MaxWords words *)
OcrWords == <<[text |-> TxtCat, meaning |-> "m1"],
              [text |-> TxtDog, meaning |-> "m2"],
              [text |-> TxtCatCap, meaning |-> "m3"],
              [text |-> TxtRun, meaning |-> "m4"]>>
OcrSentences == <<[text |-> TxtRun, meaning |-> "m5"],
                  [text |-> TxtDog, meaning |-> "m6"]>>

InitSelect ==
    /\ ConstructorFields
    /\ FirstVisit
    /\ allWords = SubSeq(OcrWords, 1, MaxWords)
    /\ allSentences = SubSeq(OcrSentences, 1, MaxSentences)
    /\ currentPage = "page-selection"

NextSelect ==
    \/ UserCanAct /\ \E i \in 1..DisplayCap : toggleWordSelection(i)
    \/ UserCanAct /\ \E i \in 1..DisplayCap : toggleSentenceSelection(i)
    \/ UserCanAct /\ loginWithEmail
    \/ UserCanAct /\ confirmLogout
    \/ \E ok \in BOOLEAN : LoginResponse(ok)
    \/ \E ok \in BOOLEAN : LogoutResponse(ok)

SpecSelect == InitSelect /\ [][NextSelect]_vars

Members(s) == {s[k] : k \in 1..Len(s)}

\* C5 (as claimed): in every reachable state the number of selected words is at
\* most maxWordSelection and the number of selected sentences is at most
\* maxSentenceSelection for the current authentication state.
C5_SelectionWithinCap ==
    /\ Len(selectedWordIndices) <= maxWordSelection
    /\ Len(selectedSentenceIndices) <= maxSentenceSelection

\* C10 (as claimed): toggling the same index twice in succession restores the
\* selection set, for every selection the page can hold (also one at the cap).
C10_ToggleTwiceRestores ==
    /\ \A i \in Shown(allWords) :
          Members(EvictToggle(EvictToggle(selectedWordIndices, i, maxWordSelection),
                              i, maxWordSelection))
              = Members(selectedWordIndices)
    /\ \A i \in Shown(allSentences) :
          Members(EvictToggle(EvictToggle(selectedSentenceIndices, i,
                                          maxSentenceSelection),
                              i, maxSentenceSelection))
              = Members(selectedSentenceIndices)

(* ------------------------- a dictation session -------------------------- *)
\* a guest's first visit: the verify page after an OCR result of SessionWords
\* words and MaxSentences sentences, auto-play left off
Init ==
    /\ ConstructorFields
    /\ FirstVisit
    /\ allWords = SubSeq(OcrWords, 1, SessionWords)
    /\ allSentences = SubSeq(OcrSentences, 1, MaxSentences)
    /\ currentPage = "page-verify"

ModeButtons == {"word", "sentence"}

Next ==
    \/ UserCanAct /\ generateAndStart
    \/ UserCanAct /\ \E b \in BOOLEAN : markAnswer(b)
    \/ UserCanAct /\ prevItem
    \/ UserCanAct /\ nextItem
    \/ UserCanAct /\ \E m \in ModeButtons : switchAudioMode(m)
    \/ \E i \in 1..Len(ttsInflight), ok \in BOOLEAN :
          \E good \in SUBSET (1..Len(ttsInflight[i].req)) :
              (ok \/ good = {}) /\ TtsResponse(i, ok, good)
    \/ AdvanceTimer(MaxSessions)

Spec == Init /\ [][Next]_vars

\* C1 (as claimed): however often markAnswer is called on the last item, the
\* session finishes once: where the last item of the current results is marked,
\* finishDictation, and with it recordSession, has run at most once since
\* those results were initialised.
C1_FinishesOnce ==
    (results # <<>> /\ results[Len(results)].isCorrect # "null")
        => finishRuns <= 1

\* C3 (as claimed): once a session has been started, 0 <= currentIndex <
\* items.length (here 1 <= currentIndex <= Len(items)) in every state.
C3_CursorInRange ==
    currentPage \in {"page-dictation", "page-results"}
        => currentIndex \in 1..Len(items)

\* C4 (as claimed): the accuracy on the results page is
\* round(correct / (correct + incorrect) * 100) of the counts shown with it.
C4_AccuracyOfMarked ==
    (resultsPage # <<>> /\ resultsPage[1].perfect + resultsPage[1].review > 0)
        => resultsPage[1].accuracy
               = RoundPct(resultsPage[1].perfect,
                          resultsPage[1].perfect + resultsPage[1].review)

(* --------------------------- starting a session ------------------------- *)
\* the selection page of the same visit
InitStart ==
    /\ ConstructorFields
    /\ FirstVisit
    /\ allWords = SubSeq(OcrWords, 1, SessionWords)
    /\ allSentences = SubSeq(OcrSentences, 1, MaxSentences)
    /\ currentPage = "page-selection"

NextStart ==
    \/ UserCanAct /\ \E i \in 1..DisplayCap : toggleWordSelection(i)
    \/ UserCanAct /\ \E i \in 1..DisplayCap : toggleSentenceSelection(i)
    \/ UserCanAct /\ generateAndStart
    \/ UserCanAct /\ startDictationFromSelection
    \/ UserCanAct /\ \E b \in BOOLEAN : markAnswer(b)
    \/ \E i \in 1..Len(ttsInflight), ok \in BOOLEAN :
          \E good \in SUBSET (1..Len(ttsInflight[i].req)) :
              (ok \/ good = {}) /\ TtsResponse(i, ok, good)
    \/ AdvanceTimer(StartSessions)

SpecStart == InitStart /\ [][NextStart]_vars

\* the step in which generateAndStart or startDictationFromSelection returns:
\* the handler itself when nothing needed audio, else its continuation
StartCompletes ==
    \/ generateAndStart /\ NeedsAudio(AllItems) = <<>>
    \/ /\ startDictationFromSelection
       /\ ~StaleSelection /\ NeedsAudio(SelectedItems) = <<>>
    \/ \E i \in 1..Len(ttsInflight), ok \in BOOLEAN :
          \E good \in SUBSET (1..Len(ttsInflight[i].req)) :
              /\ ttsInflight[i].kind
                    \in {"generateAndStart", "startDictationFromSelection"}
              /\ TtsResponse(i, ok, good)

InitWrong ==
    /\ ConstructorFields
    /\ FirstVisit
    /\ allWords = <<>> /\ allSentences = <<>>
    /\ currentPage = "page-home"

\* what markAnswer hands to addWrongWord: a word with its meaning, and the
\* answer, which is the placeholder when nothing was typed
TypedAnswer == <<"c","a","t","s">>
Answers == {NoAnswer, TypedAnswer}

NextWrong ==
    \/ UserCanAct /\ \E i \in 1..MaxWords, u \in Answers :
                        addWrongWord(OcrWords[i].text, OcrWords[i].meaning, u)
    \/ UserCanAct /\ \E i \in 1..MaxWords : removeWrongWord(i)
    \/ UserCanAct /\ clearWrongWords
    \/ UserCanAct /\ practiceWrongWords
    \/ \E i \in 1..Len(ttsInflight), ok \in BOOLEAN :
          \E good \in SUBSET (1..Len(ttsInflight[i].req)) :
              (ok \/ good = {}) /\ TtsResponse(i, ok, good)
    \/ DayPasses(MaxDay)
    \/ Reload

SpecWrong == InitWrong /\ [][NextWrong]_vars

\* JSON.parse of the stored wrongWords document (nothing stored: no entries)
StoredWrongWords == IF lsWrongWords = <<>> THEN <<>> ELSE lsWrongWords[1]

\* C6 (as claimed): the entries that were saved are in the wrong-word list of a
\* newly constructed DictationApp, and an addWrongWord call takes none of
\* them out of the stored document.
C6_WrongWordsSurviveReload ==
    [][/\ Reload =>
              \A k \in 1..Len(StoredWrongWords) :
                  SeqHas(wrongWords', StoredWrongWords[k])
       /\ (\E i \in 1..MaxWords, u \in Answers :
              addWrongWord(OcrWords[i].text, OcrWords[i].meaning, u)) =>
              \A k \in 1..Len(StoredWrongWords) :
                  SeqHas(StoredWrongWords', StoredWrongWords[k])]_vars

\* C7: addWrongWord with a word that some entry already has, compared without
\* regard to case, leaves the list as it is: no second entry, and the entry's
\* meaning, userAnswer, addedAt and reviewCount untouched.
C7_DuplicateAddIsNoOp ==
    [][\A i \in 1..MaxWords, u \in Answers :
          ( /\ \E k \in 1..Len(wrongWords) :
                  toLowerCase(wrongWords[k].word) = toLowerCase(OcrWords[i].text)
            /\ addWrongWord(OcrWords[i].text, OcrWords[i].meaning, u) )
          => wrongWords' = wrongWords]_vars

\* an entry for cat, added on day 1 without an answer and reviewed once, has
\* stayed alone and unchanged on day 2, when Cat with another meaning, answer
\* and date can be added
C7_Witness ==
    /\ today = 2
    /\ wrongWords = <<[word |-> TxtCat, meaning |-> "m1", userAnswer |-> NoAnswer,
                       addedAt |-> 1, reviewCount |-> 1]>>
    /\ lsWrongWords = <<wrongWords>>

(* ------------------------------ the history ----------------------------- *)
\* a session of one word and one sentence whose batch request failed, the word
\* marked right and the sentence wrong, the last markAnswer callback pending
MarkedItems ==
    <<[text |-> TxtCat, meaning |-> "m1", type |-> "word", id |-> <<"word", 1>>,
       audio |-> <<>>],
      [text |-> TxtRun, meaning |-> "m5", type |-> "sentence",
       id |-> <<"sentence", 1>>, audio |-> <<>>]>>

MarkedResults ==
    [k \in 1..2 |->
        [FreshResults(MarkedItems)[k] EXCEPT
            !.isCorrect = IF k = 1 THEN "true" ELSE "false",
            !.userAnswer = NoAnswer]]

MarkedBook ==
    <<[word |-> TxtRun, meaning |-> "m5", userAnswer |-> NoAnswer, addedAt |-> 1,
       reviewCount |-> 0]>>

\* either a first visit, or that session on a first visit
InitStats ==
    /\ lsSettings = <<>> /\ lsStatistics = <<>> /\ lsCurrentUser = FALSE
    /\ isLoggedIn = FALSE
    /\ maxWordSelection = GuestMax /\ maxSentenceSelection = GuestMax
    /\ darkMode = FALSE /\ speechRate = Num(0) /\ voiceId = DefaultVoice
    /\ autoPlay = FALSE
    /\ statistics = EmptyStatistics
    /\ today = 1
    /\ selectedWordIndices = <<>> /\ selectedSentenceIndices = <<>>
    /\ dictationAutoPlay = FALSE
    /\ dictationMode = "words"
    /\ ttsCache = {}
    /\ isPlaying = FALSE /\ loading = FALSE /\ audio = SilentAudio
    /\ resultsPage = <<>> /\ posted = <<>>
    /\ ttsInflight = <<>> /\ authInflight = <<>>
    /\ recognizedText = <<>> /\ imageData = <<>>
    /\ readers = <<>> /\ ocrInflight = <<>>
    /\ slowMode = FALSE /\ previewInflight = <<>>
    /\ finishRuns = 0
    /\ \/ /\ allWords = <<>> /\ allSentences = <<>>
          /\ items = <<>> /\ results = <<>> /\ currentIndex = 1
          /\ wrongWords = <<>> /\ lsWrongWords = <<>>
          /\ timers = NoTimers
          /\ currentPage = "page-home"
       \/ /\ allWords = SubSeq(OcrWords, 1, 1)
          /\ allSentences = SubSeq(OcrSentences, 1, 1)
          /\ items = MarkedItems /\ results = MarkedResults /\ currentIndex = 2
          /\ wrongWords = MarkedBook /\ lsWrongWords = <<MarkedBook>>
          /\ timers = [NoTimers EXCEPT !.advance = 1]
          /\ currentPage = "page-dictation"

\* a day ends only after a session was recorded on it: the history then grows
\* by one entry a day, which is as fast as it can
NextStats ==
    \/ AdvanceTimer(MaxSessions)
    \/ UserCanAct /\ showResultsDemo(MaxSessions)
    \/ HasEntry(statistics.history, today) /\ DayPasses(StatDays)
    \/ Reload

SpecStats == InitStats /\ [][NextStats]_vars

\* C8: statistics.history never has more than 30 entries, in the controller
\* and in the stored document, whatever the dates of the recorded sessions.
C8_HistoryAtMostThirty ==
    /\ Len(statistics.history) <= HistoryCap
    /\ Len(loadStatistics(lsStatistics).history) <= HistoryCap

\* sessions on more than 30 days have been recorded: the history holds 30
\* entries, the oldest days are gone and today's is the last
C8_Witness ==
    /\ Len(statistics.history) = HistoryCap
    /\ statistics.history[1].date > 1
    /\ statistics.history[HistoryCap].date = today
    /\ statistics.sessions > HistoryCap
    /\ statistics.correct > 0

(* ----------------------------- the settings ----------------------------- *)
InitSettings ==
    /\ ConstructorFields
    /\ FirstVisit
    /\ allWords = <<>> /\ allSentences = <<>>
    /\ currentPage = "page-home"

NextSettings ==
    \/ UserCanAct /\ toggleDarkMode
    \/ UserCanAct /\ \E r \in SliderValues : setSpeechRate(r)
    \/ UserCanAct /\ \E v \in VoiceOptions : setVoiceId(v)
    \/ UserCanAct /\ toggleAutoPlay
    \/ UserCanAct /\ loginWithEmail
    \/ \E ok \in BOOLEAN : LoginResponse(ok)
    \/ Reload

SpecSettings == InitSettings /\ [][NextSettings]_vars

\* C9: for every settings tuple {darkMode, speechRate, voiceId, autoPlay} the
\* controller holds, what saveSettings writes for it is read back by
\* loadSettings as the identical tuple, and the stored document, which a reload
\* reads, gives back the tuple held now.
C9_SettingsRoundTrip ==
    /\ loadSettings(<<SettingsDoc(darkMode, speechRate, voiceId, autoPlay)>>)
           = <<darkMode, speechRate, voiceId, autoPlay>>
    /\ loadSettings(lsSettings) = <<darkMode, speechRate, voiceId, autoPlay>>

\* a saved tuple whose falsy fields (rate 0, both toggles off) were set by hand
\* after having been different, and whose voice is not the default one
C9_Witness ==
    /\ lsSettings # <<>>
    /\ speechRate = Num(0) /\ ~darkMode /\ ~autoPlay /\ voiceId = OtherVoice

(* --------------- the step-based page (src/unnamed/part_001) ------------- *)
\* The step-based DictationApp holds the OCR content in its fields words and
\* sentences (allWords and allSentences here) and shows one section at a time
\* (currentPage here holds the section shown).

\* batch TTS requests the step-based page has outstanding at once, at most
MaxTts == 1
\* sessions the step-based page records, at most
StepSessions == 2
\* callbacks of its markAnswer pending at once, at most
StepTimers == 1

WhiteSpace == {" "}

\* String.prototype.trim
RECURSIVE TrimStart(_)
TrimStart(s) ==
    IF s # <<>> /\ Head(s) \in WhiteSpace THEN TrimStart(Tail(s)) ELSE s
RECURSIVE TrimEnd(_)
TrimEnd(s) ==
    IF s # <<>> /\ s[Len(s)] \in WhiteSpace
    THEN TrimEnd(SubSeq(s, 1, Len(s) - 1)) ELSE s
trim(s) == TrimEnd(TrimStart(s))

\* words.map((w, i) => ({...w, type: 'word', id: i})), and the same of sentences
StepItem(list, kind, i) ==
    [text |-> list[i].text, meaning |-> list[i].meaning, type |-> kind,
     id |-> <<"n", i>>, audio |-> <<>>]
StepItems(mode) ==
    IF mode = "words"
    THEN [i \in 1..Len(allWords) |-> StepItem(allWords, "word", i)]
    ELSE [i \in 1..Len(allSentences) |-> StepItem(allSentences, "sentence", i)]

\* items.map(item => ({...item, userAnswer: '', isCorrect: null, checked: false}))
StepResults(its) ==
    [k \in 1..Len(its) |->
        [text |-> its[k].text, meaning |-> its[k].meaning, type |-> its[k].type,
         id |-> its[k].id, audio |-> its[k].audio,
         userAnswer |-> Empty, isCorrect |-> "null", checked |-> FALSE]]

\* the start button generateAllAudio disabled is disabled until a request made
\* under it has settled
StartDisabled(mode) == \E i \in 1..Len(ttsInflight) : ttsInflight[i].btn = mode

\* the body generateAllAudio posts: every item, cached or not
AllAudioRequest(kind, mode, its) ==
    [kind |-> kind, btn |-> mode,
     req |-> [k \in 1..Len(its) |-> [id |-> its[k].id, text |-> its[k].text]],
     rate |-> speechRate]

\* updateDictationUI of the step-based page throws on a cursor with no item or
\* no result behind it
StepUiThrows(its, rs, idx) == idx \notin 1..Len(its) \/ idx \notin 1..Len(rs)

\* ... and else hands the item's audio, if it has one, to the audio element
StepUiAudio(its, rs, idx) ==
    IF ~StepUiThrows(its, rs, idx) /\ its[idx].audio # <<>>
    THEN [audio EXCEPT !.src = its[idx].audio, !.playing = FALSE]
    ELSE audio

\* startDictation(mode) up to the request of generateAllAudio
startDictation(mode) ==
    /\ dictationMode' = mode
    /\ items' = StepItems(mode)
    /\ IF StepItems(mode) = <<>>
       THEN UNCHANGED <<currentIndex, results, ttsInflight, finishRuns>>
       ELSE /\ Len(ttsInflight) < MaxTts
            /\ currentIndex' = 1
            /\ results' = StepResults(StepItems(mode))
            /\ finishRuns' = 0
            /\ ttsInflight' = Append(ttsInflight,
                   AllAudioRequest("startDictation", mode, StepItems(mode)))
    /\ UNCHANGED <<storageVars, contentVars, ocrVars, previewVars,
                   selVars, authVars,
                   settingsVars, bookVars, statVars, playVars, outVars, today,
                   timers, authInflight, ttsCache, currentPage, loading>>

\* retry()
retry == startDictation(dictationMode)

\* generateAllAudio after its await, then the rest of startDictation or of
\* practiceWrongWords: updateDictationUI, showSection('step-dictation')
StepTtsResponse(i, ok, good) ==
    LET rq == ttsInflight[i]
        done == IF ok
                THEN ApplyResults(items, {}, rq.req, rq.rate, good, 1).items
                ELSE items
    IN  /\ ttsInflight' = SubSeq(ttsInflight, 1, i - 1)
                             \o SubSeq(ttsInflight, i + 1, Len(ttsInflight))
        /\ items' = done
        /\ audio' = StepUiAudio(done, results, currentIndex)
        /\ currentPage' = IF StepUiThrows(done, results, currentIndex)
                          THEN currentPage ELSE "step-dictation"
        /\ UNCHANGED <<storageVars, contentVars, ocrVars, previewVars,
                       selVars, authVars,
                       settingsVars, results, currentIndex, dictationMode,
                       bookVars, statVars, isPlaying, dictationAutoPlay, outVars,
                       today, timers, authInflight, ttsCache, loading, finishRuns>>

\* markAnswer of the step-based page up to its setTimeout(..., 1000), on the
\* results rs the caller hands over
StepMarked(rs, isCorrect) ==
    [rs EXCEPT ![currentIndex].isCorrect = IF isCorrect THEN "true" ELSE "false",
               ![currentIndex].checked = TRUE]

StepSessionUnchanged ==
    UNCHANGED <<storageVars, contentVars, ocrVars, previewVars,
                selVars, authVars,
                settingsVars, items, currentIndex, dictationMode, bookVars,
                statVars, playVars, outVars, today, ttsInflight, authInflight,
                ttsCache, currentPage, loading, finishRuns>>

\* a comparison that trims the item's text as well as the answer
AnswerMatchesTrimmed(typed, target) ==
    toLowerCase(trim(typed)) = toLowerCase(trim(target))

\* what checkAnswer compares: the trimmed answer and the item's text, both in
\* lower case
AnswerMatches(typed, target) == toLowerCase(trim(typed)) = toLowerCase(target)

\* checkAnswer() with typed in #answer-input; it throws where the cursor has no
\* result, and after storing the answer where it has no item
checkAnswer(typed) ==
    IF currentIndex \notin 1..Len(results)
    THEN UNCHANGED vars
    ELSE LET stored == [results EXCEPT ![currentIndex].userAnswer = trim(typed)]
         IN  IF currentIndex \notin 1..Len(items)
             THEN /\ results' = stored
                  /\ UNCHANGED timers
                  /\ StepSessionUnchanged
             ELSE /\ timers.advance < StepTimers
                  /\ results' = StepMarked(stored,
                         AnswerMatches(typed, items[currentIndex].text))
                  /\ timers' = [timers EXCEPT !.advance = @ + 1]
                  /\ StepSessionUnchanged

\* finishDictation of the step-based page: the results section, recordSession
stepFinishDictation ==
    /\ statistics.sessions < StepSessions
    /\ statistics' = recordSession(statistics, today, CountOf(results, "true"),
                                   CountOf(results, "false"))
    /\ lsStatistics' = <<statistics'>>
    /\ resultsPage' = <<[accuracy |-> ShownAccuracy(results),
                         perfect |-> CountOf(results, "true"),
                         review |-> CountOf(results, "false")]>>
    /\ currentPage' = "step-results"
    /\ finishRuns' = finishRuns + 1

\* the callback markAnswer scheduled
StepAdvanceTimer ==
    /\ timers.advance > 0
    /\ timers' = [timers EXCEPT !.advance = @ - 1]
    /\ IF currentIndex < Len(items)
       THEN /\ currentIndex' = currentIndex + 1
            /\ audio' = StepUiAudio(items, results, currentIndex + 1)
            /\ UNCHANGED <<lsStatistics, statVars, outVars, currentPage, finishRuns>>
       ELSE /\ stepFinishDictation
            /\ UNCHANGED <<currentIndex, audio, posted>>
    /\ UNCHANGED <<lsSettings, lsWrongWords, lsCurrentUser, contentVars, ocrVars, previewVars,
                   selVars, authVars, settingsVars, items, results, dictationMode,
                   bookVars, isPlaying, dictationAutoPlay, today, ttsInflight,
                   authInflight, ttsCache, loading>>

goBack ==
    /\ currentPage' = "step-content"
    /\ UNCHANGED <<storageVars, contentVars, ocrVars, previewVars,
                   selVars, authVars,
                   settingsVars, sessionVars, bookVars, statVars, playVars,
                   outVars, envVars, ttsCache, loading, finishRuns>>

goHome ==
    /\ currentPage' = "step-upload"
    /\ recognizedText' = <<>>
    /\ allWords' = <<>> /\ allSentences' = <<>>
    /\ currentIndex' = 1
    /\ items' = <<>> /\ results' = <<>>
    /\ UNCHANGED <<storageVars, imageData, previewVars,
                   readers, ocrInflight, selVars,
                   authVars, settingsVars, dictationMode, bookVars, statVars,
                   playVars, outVars, envVars, ttsCache, loading, finishRuns>>

\* wrongResults.forEach(r => this.addWrongWord(...)) from result k on
RECURSIVE SavedBook(_, _, _)
SavedBook(book, rs, k) ==
    IF k > Len(rs) THEN book
    ELSE SavedBook(IF rs[k].isCorrect = "false"
                   THEN AddedTo(book, rs[k].text, rs[k].meaning, rs[k].userAnswer,
                                today)
                   ELSE book,
                   rs, k + 1)

\* saveWrongWordsToBook: addWrongWord saves whenever it pushes
saveWrongWordsToBook ==
    /\ wrongWords' = SavedBook(wrongWords, results, 1)
    /\ lsWrongWords' = IF wrongWords' = wrongWords THEN lsWrongWords
                       ELSE <<wrongWords'>>
    /\ UNCHANGED <<lsSettings, lsStatistics, lsCurrentUser, contentVars, ocrVars, previewVars,
                   selVars, authVars, settingsVars, sessionVars, statVars,
                   playVars, outVars, envVars, ttsCache, currentPage, loading,
                   finishRuns>>

\* practiceWrongWords of the step-based page up to the request
stepPracticeWrongWords ==
    /\ wrongWords # <<>>
    /\ \A k \in 1..Len(wrongWords) : wrongWords[k].reviewCount < MaxReview
    /\ Len(ttsInflight) < MaxTts
    /\ items' = [i \in 1..Len(wrongWords) |->
                    [text |-> wrongWords[i].word, meaning |-> wrongWords[i].meaning,
                     type |-> "word", id |-> <<"n", i>>, audio |-> <<>>]]
    /\ wrongWords' = [k \in 1..Len(wrongWords) |->
                         [wrongWords[k] EXCEPT !.reviewCount = @ + 1]]
    /\ lsWrongWords' = <<wrongWords'>>
    /\ currentIndex' = 1
    /\ results' = StepResults(items')
    /\ finishRuns' = 0
    /\ ttsInflight' = Append(ttsInflight,
           AllAudioRequest("practiceWrongWords", dictationMode, items'))
    /\ UNCHANGED <<lsSettings, lsStatistics, lsCurrentUser, contentVars, ocrVars, previewVars,
                   selVars, authVars, settingsVars, dictationMode, statVars,
                   playVars, outVars, today, timers, authInflight, ttsCache,
                   currentPage, loading>>

(* the content section after an OCR result of two words and no sentence *)
TxtDogPadded == <<" ", "d", "o", "g">>
StepWords == <<[text |-> TxtCatCap, meaning |-> "m1"],
               [text |-> TxtDogPadded, meaning |-> "m2"]>>

\* what the pupil types into #answer-input
TypedAnswers == {<<" ", "c", "a", "t", " ">>, TxtDogPadded, <<>>}

StepModes == {"words", "sentences"}

InitStep ==
    /\ ConstructorFields
    /\ FirstVisit
    /\ allWords = StepWords
    /\ allSentences = <<>>
    /\ currentPage = "step-content"

\* the handlers of the section shown, the wrong-word panel of the header, and
\* the callbacks
NextStep ==
    \/ currentPage = "step-content"
          /\ \E m \in StepModes : ~StartDisabled(m) /\ startDictation(m)
    \/ currentPage = "step-dictation" /\ \E a \in TypedAnswers : checkAnswer(a)
    \/ currentPage = "step-dictation" /\ goBack
    \/ currentPage = "step-results" /\ retry
    \/ currentPage = "step-results" /\ goHome
    \/ currentPage = "step-results" /\ saveWrongWordsToBook
    \/ stepPracticeWrongWords
    \/ \E i \in 1..Len(ttsInflight), ok \in BOOLEAN :
          \E good \in SUBSET (1..Len(ttsInflight[i].req)) :
              (ok \/ good = {}) /\ StepTtsResponse(i, ok, good)
    \/ StepAdvanceTimer

SpecStep == InitStep /\ [][NextStep]_vars

\* C11 (as claimed): a start with an empty item list is rejected and leaves
\* items, results, currentIndex and dictationMode as they were before the call.
C11_EmptyStartChangesNothing ==
    [][\A m \in StepModes :
          (StepItems(m) = <<>> /\ startDictation(m))
              => UNCHANGED <<items, results, currentIndex, dictationMode>>]_vars

(* ------------------- the results page: retry, leaving ------------------- *)
\* results.filter on everything that is not correct, the unmarked included
MistakesOrUnmarked(rs) == SelectSeq(rs, LAMBDA r : r.isCorrect # "true")

\* results.filter(r => r.isCorrect === false)
Mistakes(rs) == SelectSeq(rs, LAMBDA r : r.isCorrect = "false")

\* mistakes.map((m, i) => ({...m, id: i, audio_url: ttsCache.get(text) || null}))
RetryItems(rs, cache) ==
    [i \in 1..Len(Mistakes(rs)) |->
        [text |-> Mistakes(rs)[i].text, meaning |-> Mistakes(rs)[i].meaning,
         type |-> Mistakes(rs)[i].type, id |-> <<"n", i>>,
         audio |-> CacheGet(cache, Mistakes(rs)[i].text)]]

\* retryMistakes up to the request; with no mistake it alerts and returns
retryMistakes ==
    IF Mistakes(results) = <<>>
    THEN UNCHANGED vars
    ELSE /\ items' = RetryItems(results, ttsCache)
         /\ currentIndex' = 1
         /\ results' = FreshResults(items')
         /\ finishRuns' = 0
         /\ IF NeedsAudio(items') # <<>>
            THEN /\ loading' = TRUE
                 /\ ttsInflight' = Append(ttsInflight,
                                          TtsRequest("retryMistakes", items'))
                 /\ UNCHANGED currentPage
            ELSE /\ currentPage' = "page-dictation"
                 /\ UNCHANGED <<loading, ttsInflight>>
         /\ UNCHANGED <<storageVars, contentVars, ocrVars, previewVars,
                        selVars, authVars,
                        settingsVars, dictationMode, bookVars, statVars, playVars,
                        outVars, today, timers, authInflight, ttsCache>>

\* saveAndExit: showPage('page-home')
saveAndExit ==
    /\ currentPage' = "page-home"
    /\ UNCHANGED <<storageVars, contentVars, ocrVars, previewVars,
                   selVars, authVars,
                   settingsVars, sessionVars, bookVars, statVars, playVars,
                   outVars, envVars, ttsCache, loading, finishRuns>>

\* the verify page of a first visit, then the pages of one session after another
NextRetry ==
    \/ UserCanAct /\ currentPage = "page-verify" /\ generateAndStart
    \/ UserCanAct /\ currentPage = "page-dictation"
          /\ \E b \in BOOLEAN : markAnswer(b)
    \/ UserCanAct /\ currentPage = "page-results" /\ retryMistakes
    \/ UserCanAct /\ currentPage \in {"page-dictation", "page-results"}
          /\ saveAndExit
    \/ \E i \in 1..Len(ttsInflight), ok \in BOOLEAN :
          \E good \in SUBSET (1..Len(ttsInflight[i].req)) :
              (ok \/ good = {}) /\ TtsResponse(i, ok, good)
    \/ AdvanceTimer(MaxSessions)

SpecRetry == Init /\ [][NextRetry]_vars

\* C12 (as claimed): after navigating home from a session all session state is
\* cleared: items and results are empty and currentIndex is 0 (here 1).
C12_HomeClearsSession ==
    currentPage = "page-home"
        => items = <<>> /\ results = <<>> /\ currentIndex = 1

\* C15: retryMistakes on the results page yields a session whose items are the
\* previous results with isCorrect === false, in their previous order, with the
\* cursor on the first item and every new result unmarked with an empty
\* answer; with no mistake it leaves items, results and currentIndex alone.
C15_RetryMistakesRestarts ==
    [][(currentPage = "page-results" /\ retryMistakes) =>
          LET wrong == SelectSeq(results, LAMBDA r : r.isCorrect = "false")
          IN  IF wrong = <<>>
              THEN UNCHANGED <<items, results, currentIndex>>
              ELSE /\ Len(items') = Len(wrong)
                   /\ \A k \in 1..Len(wrong) :
                         /\ items'[k].text = wrong[k].text
                         /\ items'[k].meaning = wrong[k].meaning
                         /\ items'[k].type = wrong[k].type
                   /\ currentIndex' = 1
                   /\ Len(results') = Len(wrong)
                   /\ \A k \in 1..Len(wrong) :
                         /\ results'[k].text = wrong[k].text
                         /\ results'[k].isCorrect = "null"
                         /\ results'[k].userAnswer = Empty]_vars

\* a retry session of the one mistake of a finished two-item session, started
C15_Witness ==
    /\ statistics.sessions >= 1
    /\ Len(items) = 1 /\ items[1].id = <<"n", 1>>
    /\ Len(results) = 1 /\ results[1].isCorrect = "null"
    /\ currentPage = "page-dictation"

(* ------------------ a session whose audio may be missing ----------------- *)
\* items added by hand on the verify page, at most
MaxAdded == 2

\* the text addNewItem gives a new word (a fixed placeholder)
TxtNew == <<"n", "e", "w">>

\* addNewItem with contentType 'words' (its value unless switchContentType ran);
\* renderContentList ends in hideLoading
addNewItem ==
    /\ Len(allWords) < SessionWords + MaxAdded
    /\ allWords' = Append(allWords, [text |-> TxtNew, meaning |-> ""])
    /\ loading' = FALSE
    /\ UNCHANGED <<storageVars, allSentences, ocrVars, previewVars,
                   selVars, authVars,
                   settingsVars, sessionVars, bookVars, statVars, playVars,
                   outVars, envVars, ttsCache, currentPage, finishRuns>>

\* playCurrentAudio without its test of the item and its audio_url
playUnchecked ==
    /\ isPlaying' = ~isPlaying
    /\ audio' = IF isPlaying THEN [audio EXCEPT !.playing = FALSE]
                ELSE [src |-> IF currentIndex \in 1..Len(items)
                              THEN items[currentIndex].audio ELSE <<>>,
                      playing |-> TRUE, hooked |-> TRUE]
    /\ UNCHANGED <<storageVars, contentVars, ocrVars, previewVars,
                   selVars, authVars,
                   settingsVars, sessionVars, bookVars, statVars,
                   dictationAutoPlay, outVars, envVars, ttsCache, currentPage,
                   loading, finishRuns>>

\* playCurrentAudio: nothing without an item that has its audio; else pause what
\* plays, or play the item and hook onended
playCurrentAudio ==
    IF currentIndex \notin 1..Len(items) \/ items[currentIndex].audio = <<>>
    THEN UNCHANGED vars
    ELSE /\ isPlaying' = ~isPlaying
         /\ audio' = IF isPlaying THEN [audio EXCEPT !.playing = FALSE]
                     ELSE [src |-> items[currentIndex].audio, playing |-> TRUE,
                           hooked |-> TRUE]
         /\ UNCHANGED <<storageVars, contentVars, ocrVars, previewVars,
                        selVars, authVars,
                        settingsVars, sessionVars, bookVars, statVars,
                        dictationAutoPlay, outVars, envVars, ttsCache,
                        currentPage, loading, finishRuns>>

\* the audio element reaches the end of what it plays: the 'ended' listener of
\* bindEvents, and the onended hook where playCurrentAudio has set it
AudioEnded ==
    /\ audio.playing
    /\ audio' = [audio EXCEPT !.playing = FALSE]
    /\ isPlaying' = FALSE
    /\ timers' = IF audio.hooked /\ dictationAutoPlay /\ currentIndex < Len(items)
                 THEN [timers EXCEPT !.autoNext = @ + 1] ELSE timers
    /\ timers'.autoNext <= MaxTimers
    /\ UNCHANGED <<storageVars, contentVars, ocrVars, previewVars,
                   selVars, authVars,
                   settingsVars, sessionVars, bookVars, statVars,
                   dictationAutoPlay, outVars, today, ttsInflight, authInflight,
                   ttsCache, currentPage, loading, finishRuns>>

\* some batch request is answered, in any of the ways the server can answer
SomeTtsResponse ==
    \E i \in 1..Len(ttsInflight), ok \in BOOLEAN :
        \E good \in SUBSET (1..Len(ttsInflight[i].req)) :
            (ok \/ good = {}) /\ TtsResponse(i, ok, good)

\* a first visit: the verify page after an OCR result of SessionWords words
InitAudio ==
    /\ ConstructorFields
    /\ FirstVisit
    /\ allWords = SubSeq(OcrWords, 1, SessionWords)
    /\ allSentences = <<>>
    /\ currentPage = "page-verify"

NextAudio ==
    \/ UserCanAct /\ currentPage = "page-verify" /\ addNewItem
    \/ UserCanAct /\ currentPage = "page-verify" /\ generateAndStart
    \/ UserCanAct /\ currentPage = "page-dictation"
          /\ \E b \in BOOLEAN : markAnswer(b)
    \/ UserCanAct /\ currentPage = "page-dictation" /\ playCurrentAudio
    \/ AudioEnded
    \/ SomeTtsResponse
    \/ AdvanceTimer(MaxTimers + 1)

\* a fetch settles and a timer fires
SpecAudio ==
    /\ InitAudio /\ [][NextAudio]_vars
    /\ WF_vars(SomeTtsResponse)
    /\ WF_vars(AdvanceTimer(MaxTimers + 1))

AllMarked == results # <<>> /\ \A k \in 1..Len(results) : results[k].isCorrect # "null"
SomeAudioMissing == \E k \in 1..Len(items) : items[k].audio = <<>>

Texts(its) == [k \in 1..Len(its) |-> its[k].text]

\* C14 (as claimed): retry on the results section starts a session whose item
\* texts are identical, in the same order, to those of the session that just
\* finished (every item marked, nothing pending), however that session was
\* started.
C14_RetryRepeatsSession ==
    [][(currentPage = "step-results" /\ finishRuns >= 1 /\ AllMarked
           /\ Len(items) = Len(results) /\ timers = NoTimers
           /\ ttsInflight = <<>> /\ retry)
          => Texts(items') = Texts(items)]_vars

(* --------------------------- upload and OCR ----------------------------- *)
\* FileReaders reading at once, and /api/ocr requests outstanding at once, at most
MaxReaders == 2
MaxOcr == 2

\* the images the pupil can pick
Images == {"img1", "img2"}

\* what /api/ocr can answer: a success with its text and lists, a response
\* without success, or a fetch that throws
OcrAnswers ==
    {[success |-> TRUE, text |-> <<"t", "1">>,
      words |-> SubSeq(OcrWords, 1, 2), sentences |-> SubSeq(OcrSentences, 1, 1)],
     [success |-> TRUE, text |-> <<"t", "2">>,
      words |-> SubSeq(OcrWords, 2, 2), sentences |-> <<>>],
     [success |-> TRUE, text |-> <<>>, words |-> <<>>, sentences |-> <<>>],
     [success |-> FALSE, text |-> <<>>, words |-> <<>>, sentences |-> <<>>]}
OcrOutcomes == [answer : OcrAnswers, threw : {FALSE}]
                   \cup [answer : {a \in OcrAnswers : ~a.success}, threw : {TRUE}]

\* handleImageFile(file) with a file: a FileReader starts reading it
handleImageFile(file) ==
    /\ Len(readers) < MaxReaders
    /\ readers' = Append(readers, file)
    /\ UNCHANGED <<storageVars, contentVars, recognizedText, imageData, previewVars,
                   ocrInflight, selVars, authVars, settingsVars, sessionVars,
                   bookVars, statVars, playVars, outVars, envVars, ttsCache,
                   currentPage, loading, finishRuns>>

\* reader.onload of the i-th reader: the image is kept, the verify page shown,
\* and performOCR runs up to its fetch
ReaderLoaded(i) ==
    /\ Len(ocrInflight) < MaxOcr
    /\ readers' = SubSeq(readers, 1, i - 1) \o SubSeq(readers, i + 1, Len(readers))
    /\ imageData' = <<readers[i]>>
    /\ currentPage' = "page-verify"
    /\ loading' = TRUE
    /\ ocrInflight' = Append(ocrInflight, readers[i])
    /\ UNCHANGED <<storageVars, contentVars, recognizedText, previewVars,
                   selVars, authVars, settingsVars, sessionVars, bookVars,
                   statVars, playVars, outVars, envVars, ttsCache, finishRuns>>

\* an OCR failure that empties what the page held
OcrResponseClearing(i, o) ==
    /\ ocrInflight' = SubSeq(ocrInflight, 1, i - 1)
                         \o SubSeq(ocrInflight, i + 1, Len(ocrInflight))
    /\ loading' = FALSE
    /\ recognizedText' = IF ~o.threw /\ o.answer.success THEN o.answer.text ELSE <<>>
    /\ allWords' = IF ~o.threw /\ o.answer.success THEN o.answer.words ELSE <<>>
    /\ allSentences' = IF ~o.threw /\ o.answer.success THEN o.answer.sentences
                       ELSE <<>>
    /\ UNCHANGED <<storageVars, imageData, previewVars,
                   readers, selVars, authVars,
                   settingsVars, sessionVars, bookVars, statVars, playVars,
                   outVars, envVars, ttsCache, currentPage, finishRuns>>

\* performOCR after its await, for the i-th request and the outcome o; every
\* branch ends with the overlay hidden
OcrResponse(i, o) ==
    /\ ocrInflight' = SubSeq(ocrInflight, 1, i - 1)
                         \o SubSeq(ocrInflight, i + 1, Len(ocrInflight))
    /\ loading' = FALSE
    /\ IF ~o.threw /\ o.answer.success
       THEN /\ recognizedText' = o.answer.text
            /\ allWords' = o.answer.words
            /\ allSentences' = o.answer.sentences
       ELSE UNCHANGED <<recognizedText, allWords, allSentences>>
    /\ UNCHANGED <<storageVars, imageData, previewVars,
                   readers, selVars, authVars,
                   settingsVars, sessionVars, bookVars, statVars, playVars,
                   outVars, envVars, ttsCache, currentPage, finishRuns>>

\* an OCR request ends without success
OcrFails ==
    \E i \in 1..Len(ocrInflight), o \in OcrOutcomes :
        (o.threw \/ ~o.answer.success) /\ OcrResponse(i, o)

InitOcr ==
    /\ ConstructorFields
    /\ FirstVisit
    /\ allWords = <<>> /\ allSentences = <<>>
    /\ currentPage = "page-home"

NextOcr ==
    \/ UserCanAct /\ \E f \in Images : handleImageFile(f)
    \/ \E i \in 1..Len(readers) : ReaderLoaded(i)
    \/ \E i \in 1..Len(ocrInflight), o \in OcrOutcomes : OcrResponse(i, o)

SpecOcr == InitOcr /\ [][NextOcr]_vars

\* C16: when an OCR request fails (a response without success, or an
\* exception), recognizedText, the word list and the sentence list are left as
\* they were before the request was answered.
C16_FailedOcrKeepsContent ==
    [][OcrFails => UNCHANGED <<recognizedText, allWords, allSentences>>]_vars

\* a failed request has been answered (the overlay is down again, nothing is
\* outstanding) on a page that still shows the content of an earlier success
C16_Witness ==
    /\ recognizedText # <<>> /\ allWords # <<>>
    /\ ocrInflight = <<>> /\ readers = <<>> /\ ~loading
    /\ imageData = <<"img2">>
    /\ recognizedText = <<"t", "1">>

\* C19 (as claimed): at no time are two OCR requests, or two batch-TTS
\* requests, outstanding together.
C19_OneRequestAtATime ==
    Len(ocrInflight) <= 1 /\ Len(ttsInflight) <= 1

\* two characters that are one letter, whatever the case of each
SameLetter(c, d) ==
    c = d \/ \E k \in 1..26 : {c, d} = {Upper[k], LowerLetters[k]}
EqualIgnoringCase(a, b) ==
    Len(a) = Len(b) /\ \A k \in 1..Len(a) : SameLetter(a[k], b[k])

\* C17: checkAnswer marks the current item correct if and only if the typed
\* answer with its leading and trailing white space removed equals the item's
\* text ignoring case, the text taken as it is (white space around it included);
\* otherwise it marks the item incorrect. The trimmed answer is stored.
C17_CheckAnswerComparesTrimmed ==
    [][\A a \in TypedAnswers :
          (currentIndex \in 1..Len(results) /\ currentIndex \in 1..Len(items)
              /\ checkAnswer(a))
          => /\ results'[currentIndex].userAnswer = trim(a)
             /\ results'[currentIndex].isCorrect
                   = IF EqualIgnoringCase(trim(a), items[currentIndex].text)
                     THEN "true" ELSE "false"]_vars

\* 'Cat' answered with ' cat ' and marked correct, ' dog' answered with ' dog'
\* and marked incorrect
C17_Witness ==
    /\ Len(results) = 2
    /\ results[1].text = TxtCatCap /\ results[1].userAnswer = TxtCat
    /\ results[1].isCorrect = "true"
    /\ results[2].text = TxtDogPadded /\ results[2].userAnswer = TxtDog
    /\ results[2].isCorrect = "false"

(* --------------------- handlers on an empty session --------------------- *)
\* C18 (as claimed): markAnswer invoked while the result list is empty (here:
\* from the dictation page, the overlay down) never raises, that is, it always
\* finds results[currentIndex]. Checked under Spec.
C18_MarkAnswerNeverThrows ==
    (UserCanAct /\ currentPage = "page-dictation") => ~MarkAnswerThrows

(* ------------------- what a batch TTS response leaves ------------------- *)
\* the item the i-th outstanding request asked audio for at position k
Requested(i, k) ==
    CHOOSE j \in 1..Len(items) : items[j].id = ttsInflight[i].req[k].id

stepMarkAnswer(isCorrect) ==
    IF currentIndex \notin 1..Len(results)
    THEN UNCHANGED vars
    ELSE /\ timers.advance < StepTimers
         /\ results' = StepMarked(results, isCorrect)
         /\ timers' = [timers EXCEPT !.advance = @ + 1]
         /\ StepSessionUnchanged

\* the finish button of the dictation section: finishDictation as it stands
stepFinishButton ==
    /\ stepFinishDictation
    /\ UNCHANGED <<lsSettings, lsWrongWords, lsCurrentUser, contentVars, ocrVars, previewVars,
                   selVars, authVars, settingsVars, sessionVars, bookVars,
                   playVars, posted, envVars, ttsCache, loading>>

\* the handlers of the section shown and the callbacks, the answers marked by
\* hand or typed
NextMark ==
    \/ currentPage = "step-content"
          /\ \E m \in StepModes : ~StartDisabled(m) /\ startDictation(m)
    \/ currentPage = "step-dictation" /\ \E b \in BOOLEAN : stepMarkAnswer(b)
    \/ currentPage = "step-dictation" /\ \E a \in TypedAnswers : checkAnswer(a)
    \/ currentPage = "step-dictation" /\ stepFinishButton
    \/ currentPage = "step-results" /\ saveWrongWordsToBook
    \/ currentPage = "step-results" /\ retry
    \/ \E i \in 1..Len(ttsInflight), ok \in BOOLEAN :
          \E good \in SUBSET (1..Len(ttsInflight[i].req)) :
              (ok \/ good = {}) /\ StepTtsResponse(i, ok, good)
    \/ StepAdvanceTimer

SpecMark == InitStep /\ [][NextMark]_vars

\* C21 (as claimed): after markAnswer(false) on the current item the wrong-word
\* list has an entry whose text equals the item's text ignoring case, and the
\* item's result holds isCorrect false with a non-empty userAnswer; stated here
\* for the markAnswer of the step-based page.
C21_MarkedWrongIsInBook ==
    [][(currentIndex \in 1..Len(results) /\ stepMarkAnswer(FALSE))
          => /\ InBook(wrongWords', results[currentIndex].text)
             /\ results'[currentIndex].isCorrect = "false"
             /\ results'[currentIndex].userAnswer # Empty]_vars

(* ----------------------- playback and auto-play ------------------------- *)
toggleDictationAutoPlay ==
    /\ dictationAutoPlay' = ~dictationAutoPlay
    /\ UNCHANGED <<storageVars, contentVars, ocrVars, previewVars, selVars,
                   authVars, settingsVars, sessionVars, bookVars, statVars,
                   isPlaying, audio, outVars, envVars, ttsCache, currentPage,
                   loading, finishRuns>>

\* isPlaying and the audio element as playCurrentAudio leaves them with the
\* cursor on idx
PlayedAt(idx) ==
    IF idx \notin 1..Len(items) \/ items[idx].audio = <<>>
    THEN [isPlaying |-> isPlaying, audio |-> audio]
    ELSE IF isPlaying
         THEN [isPlaying |-> FALSE, audio |-> [audio EXCEPT !.playing = FALSE]]
         ELSE [isPlaying |-> TRUE,
               audio |-> [src |-> items[idx].audio, playing |-> TRUE,
                          hooked |-> TRUE]]

\* setTimeout(() => this.playCurrentAudio(), 500) fires
PlayTimer ==
    /\ timers.play > 0
    /\ timers' = [timers EXCEPT !.play = @ - 1]
    /\ isPlaying' = PlayedAt(currentIndex).isPlaying
    /\ audio' = PlayedAt(currentIndex).audio
    /\ UNCHANGED <<storageVars, contentVars, ocrVars, previewVars, selVars,
                   authVars, settingsVars, sessionVars, bookVars, statVars,
                   dictationAutoPlay, outVars, today, ttsInflight, authInflight,
                   ttsCache, currentPage, loading, finishRuns>>

\* the callback onended scheduled fires: nextItem(), then playCurrentAudio()
AutoNextTimer ==
    LET idx == IF currentIndex < Len(items)
               THEN UiIndex(items, currentIndex + 1) ELSE currentIndex
    IN  /\ timers.autoNext > 0
        /\ timers' = [timers EXCEPT !.autoNext = @ - 1]
        /\ currentIndex' = idx
        /\ isPlaying' = PlayedAt(idx).isPlaying
        /\ audio' = PlayedAt(idx).audio
        /\ UNCHANGED <<storageVars, contentVars, ocrVars, previewVars, selVars,
                       authVars, settingsVars, items, results, dictationMode,
                       bookVars, statVars, dictationAutoPlay, outVars, today,
                       ttsInflight, authInflight, ttsCache, currentPage,
                       loading, finishRuns>>

\* a session in which the pupil plays the audio, switches auto-play and marks;
\* prevItem and nextItem are never pressed
NextPlay ==
    \/ UserCanAct /\ currentPage = "page-verify" /\ toggleAutoPlay
    \/ UserCanAct /\ currentPage = "page-verify" /\ generateAndStart
    \/ UserCanAct /\ currentPage = "page-dictation"
          /\ \E b \in BOOLEAN : markAnswer(b)
    \/ UserCanAct /\ currentPage = "page-dictation" /\ playCurrentAudio
    \/ UserCanAct /\ currentPage = "page-dictation" /\ toggleDictationAutoPlay
    \/ AudioEnded
    \/ SomeTtsResponse
    \/ PlayTimer
    \/ AutoNextTimer
    \/ AdvanceTimer(StartSessions)

SpecPlay == Init /\ [][NextPlay]_vars

\* C22 (as claimed): when playback of the current item ends naturally while
\* auto-play is enabled (the autoPlay setting or the dictationAutoPlay toggle)
\* and the item is not the last, the move to the next item and its playback is
\* scheduled.
C22_EndAdvancesWhenAutoPlay ==
    [][(/\ AudioEnded /\ audio.hooked
        /\ currentPage = "page-dictation"
        /\ currentIndex \in 1..Len(items)
        /\ audio.src = items[currentIndex].audio
        /\ (autoPlay \/ dictationAutoPlay)
        /\ currentIndex < Len(items))
          => timers'.autoNext = timers.autoNext + 1]_vars

\* C24 (as claimed): with prevItem and nextItem never pressed, a session that
\* has reached the results page has every result marked (isCorrect non-null),
\* however the markAnswer calls, the 800 ms callbacks and the 1000 ms
\* auto-advance callbacks interleave.
C24_FinishedMeansAllMarked ==
    currentPage = "page-results"
        => \A k \in 1..Len(results) : results[k].isCorrect # "null"

\* C25 (as claimed): whenever isPlaying is true, the audio loaded in the shared
\* player is the audio of items[currentIndex].
C25_PlayingIsCurrentItem ==
    isPlaying => /\ currentIndex \in 1..Len(items)
                 /\ audio.src = items[currentIndex].audio

(* --------------------- previews on the verify page ---------------------- *)
\* what slow mode adds to the rate of a preview request
SlowOffset == 30
\* requests of one kind (/api/tts of playItemAudio, /api/tts/batch, uploads)
\* outstanding at once while previews are played, at most
MaxPreview == 1

toggleSlowMode ==
    /\ slowMode' = ~slowMode
    /\ UNCHANGED <<storageVars, contentVars, ocrVars, previewInflight, selVars,
                   authVars, settingsVars, sessionVars, bookVars, statVars,
                   playVars, outVars, envVars, ttsCache, currentPage, loading,
                   finishRuns>>

\* this.speechRate + (this.slowMode ? -30 : 0)
PreviewRate ==
    IF speechRate.nan THEN NaN
    ELSE Num(speechRate.n - (IF slowMode THEN SlowOffset ELSE 0))

\* playItemAudio(type, index) for the listed item with this text, up to its
\* fetch: a cached text is played at once
playItemAudio(text) ==
    /\ IF CacheHas(ttsCache, text)
       THEN /\ audio' = [audio EXCEPT !.src = CacheGet(ttsCache, text),
                                      !.playing = TRUE]
            /\ UNCHANGED previewInflight
       ELSE /\ Len(previewInflight) < MaxPreview
            /\ previewInflight' =
                   Append(previewInflight, [text |-> text, rate |-> PreviewRate])
            /\ UNCHANGED audio
    /\ UNCHANGED <<storageVars, contentVars, ocrVars, slowMode, selVars,
                   authVars, settingsVars, sessionVars, bookVars, statVars,
                   isPlaying, dictationAutoPlay, outVars, envVars, ttsCache,
                   currentPage, loading, finishRuns>>

\* playItemAudio after its await; ok = data.success && data.audio_url
PreviewResponse(i, ok) ==
    LET rq == previewInflight[i]
        url == AudioUrl(rq.text, rq.rate)
    IN  /\ previewInflight' = SubSeq(previewInflight, 1, i - 1)
                                 \o SubSeq(previewInflight, i + 1,
                                           Len(previewInflight))
        /\ ttsCache' = IF ok THEN CacheSet(ttsCache, rq.text, url) ELSE ttsCache
        /\ audio' = IF ok THEN [audio EXCEPT !.src = <<url>>, !.playing = TRUE]
                    ELSE audio
        /\ UNCHANGED <<storageVars, contentVars, ocrVars, slowMode, selVars,
                       authVars, settingsVars, sessionVars, bookVars, statVars,
                       isPlaying, dictationAutoPlay, outVars, envVars,
                       currentPage, loading, finishRuns>>

\* the texts the verify page lists a play button for
ListedTexts ==
    {allWords[k].text : k \in 1..Len(allWords)}
        \cup {allSentences[k].text : k \in 1..Len(allSentences)}

\* a visit of a user whose login is stored (checkAuthStatus): the verify page
\* after an OCR result of SessionWords words and MaxSentences sentences
InitPreview ==
    /\ ConstructorFields
    /\ lsSettings = <<>> /\ lsStatistics = <<>> /\ lsWrongWords = <<>>
    /\ lsCurrentUser = TRUE
    /\ isLoggedIn = TRUE
    /\ maxWordSelection = LoggedInMax /\ maxSentenceSelection = LoggedInMax
    /\ darkMode = FALSE /\ speechRate = Num(0) /\ voiceId = DefaultVoice
    /\ autoPlay = FALSE
    /\ statistics = EmptyStatistics
    /\ today = 1
    /\ allWords = SubSeq(OcrWords, 1, SessionWords)
    /\ allSentences = SubSeq(OcrSentences, 1, MaxSentences)
    /\ currentPage = "page-verify"

\* one visit: sessions started from the verify page, left for the home page,
\* and new images uploaded from there one at a time; renderContentList gives
\* the play buttons their handler only for a logged-in user
NextPreview ==
    \/ UserCanAct /\ currentPage = "page-verify" /\ isLoggedIn
          /\ \E t \in ListedTexts : playItemAudio(t)
    \/ UserCanAct /\ currentPage = "page-verify"
          /\ Len(ttsInflight) < MaxPreview /\ generateAndStart
    \/ UserCanAct /\ currentPage = "page-dictation" /\ toggleSlowMode
    \/ UserCanAct /\ currentPage = "page-dictation" /\ saveAndExit
    \/ UserCanAct /\ currentPage = "page-home"
          /\ Len(readers) + Len(ocrInflight) < MaxPreview
          /\ \E f \in Images : handleImageFile(f)
    \/ \E i \in 1..Len(readers) : ReaderLoaded(i)
    \/ \E i \in 1..Len(ocrInflight), o \in OcrOutcomes : OcrResponse(i, o)
    \/ \E i \in 1..Len(previewInflight), ok \in BOOLEAN : PreviewResponse(i, ok)
    \/ SomeTtsResponse

SpecPreview == InitPreview /\ [][NextPreview]_vars

\* C23 (as claimed): every audio URL an item of a session on the dictation page
\* has was synthesized at the unadjusted speechRate, also where the text was
\* previewed with slow mode on before the session started.
C23_SessionAudioAtPlainRate ==
    currentPage = "page-dictation"
        => \A k \in 1..Len(items) :
              items[k].audio # <<>> => items[k].audio[1].rate = speechRate

(* ------------- batch responses that cross a later session start --------- *)
\* /api/tts/batch requests outstanding at once, at most
MaxBatch == 2

\* images picked on the home page, sessions started from the verify page
NextRace ==
    \/ UserCanAct /\ currentPage = "page-home"
          /\ \E f \in Images : handleImageFile(f)
    \/ \E i \in 1..Len(readers) : ReaderLoaded(i)
    \/ \E i \in 1..Len(ocrInflight), o \in OcrOutcomes : OcrResponse(i, o)
    \/ UserCanAct /\ currentPage = "page-verify"
          /\ Len(ttsInflight) < MaxBatch /\ generateAndStart
    \/ SomeTtsResponse

SpecRace == InitOcr /\ [][NextRace]_vars

\* C26 (as claimed): the audio_url of every item of the current session, and the
\* URL of every ttsCache entry, was synthesized for exactly that text, also
\* where a batch response resolves after a later start has replaced items.
C26_AudioIsOfItsText ==
    /\ \A k \in 1..Len(items) :
          items[k].audio # <<>> => items[k].audio[1].text = items[k].text
    /\ \A e \in ttsCache : e.url.text = e.text

(* ------------------ the selection over a changing list ------------------ *)
ContentTypes == {"words", "sentences"}

\* deleteItem(type, index), the confirm() answered with OK: splice, then
\* renderContentList, which ends in hideLoading
deleteItem(type, index) ==
    /\ index \in 1..Len(IF type = "words" THEN allWords ELSE allSentences)
    /\ allWords' = IF type = "words"
                   THEN SubSeq(allWords, 1, index - 1)
                            \o SubSeq(allWords, index + 1, Len(allWords))
                   ELSE allWords
    /\ allSentences' = IF type = "words" THEN allSentences
                       ELSE SubSeq(allSentences, 1, index - 1)
                                \o SubSeq(allSentences, index + 1,
                                          Len(allSentences))
    /\ loading' = FALSE
    /\ UNCHANGED <<storageVars, ocrVars, previewVars, selVars, authVars,
                   settingsVars, sessionVars, bookVars, statVars, playVars,
                   outVars, envVars, ttsCache, currentPage, finishRuns>>

\* goToSelection: showPage('page-selection'), renderSelectionList
goToSelection ==
    /\ currentPage' = "page-selection"
    /\ UNCHANGED <<storageVars, contentVars, ocrVars, previewVars, selVars,
                   authVars, settingsVars, sessionVars, bookVars, statVars,
                   playVars, outVars, envVars, ttsCache, loading, finishRuns>>

\* one visit: an image is picked on the home page (one at a time), its list
\* edited on the verify page, items chosen on the selection page, the session
\* left for the home page
NextEdit ==
    \/ UserCanAct /\ currentPage = "page-home"
          /\ readers = <<>> /\ ocrInflight = <<>>
          /\ \E f \in Images : handleImageFile(f)
    \/ \E i \in 1..Len(readers) : ReaderLoaded(i)
    \/ \E i \in 1..Len(ocrInflight), o \in OcrOutcomes : OcrResponse(i, o)
    \/ UserCanAct /\ currentPage = "page-verify"
          /\ \E t \in ContentTypes, i \in 1..DisplayCap : deleteItem(t, i)
    \/ UserCanAct /\ currentPage = "page-verify" /\ goToSelection
    \/ UserCanAct /\ currentPage = "page-selection"
          /\ \E i \in 1..DisplayCap : toggleWordSelection(i)
    \/ UserCanAct /\ currentPage = "page-selection"
          /\ \E i \in 1..DisplayCap : toggleSentenceSelection(i)
    \/ UserCanAct /\ currentPage = "page-selection"
          /\ ttsInflight = <<>> /\ startDictationFromSelection
    \/ UserCanAct /\ currentPage = "page-dictation" /\ saveAndExit
    \/ SomeTtsResponse

SpecEdit == InitOcr /\ [][NextEdit]_vars

\* C27 (as claimed): in every reachable state every index in
\* selectedWordIndices is an index of allWords and every index in
\* selectedSentenceIndices is an index of allSentences.
C27_SelectionIndicesValid ==
    /\ \A k \in 1..Len(selectedWordIndices) :
          selectedWordIndices[k] \in 1..Len(allWords)
    /\ \A k \in 1..Len(selectedSentenceIndices) :
          selectedSentenceIndices[k] \in 1..Len(allSentences)

(* ------------------------- a guest's sessions --------------------------- *)
\* a guest's first visit: the verify page after an OCR result of MaxWords words
\* and MaxSentences sentences
InitGuest ==
    /\ ConstructorFields
    /\ FirstVisit
    /\ allWords = SubSeq(OcrWords, 1, MaxWords)
    /\ allSentences = SubSeq(OcrSentences, 1, MaxSentences)
    /\ currentPage = "page-verify"

\* every way a session starts, the pupil marking each item once
NextGuest ==
    \/ UserCanAct /\ currentPage = "page-verify" /\ generateAndStart
    \/ UserCanAct /\ currentPage = "page-verify" /\ goToSelection
    \/ UserCanAct /\ currentPage = "page-selection"
          /\ \E i \in 1..DisplayCap : toggleWordSelection(i)
    \/ UserCanAct /\ currentPage = "page-selection"
          /\ \E i \in 1..DisplayCap : toggleSentenceSelection(i)
    \/ UserCanAct /\ currentPage = "page-selection" /\ startDictationFromSelection
    \/ UserCanAct /\ currentPage = "page-dictation" /\ timers = NoTimers
          /\ \E b \in BOOLEAN : markAnswer(b)
    \/ UserCanAct /\ currentPage = "page-results" /\ retryMistakes
    \/ UserCanAct /\ currentPage = "page-results" /\ practiceWrongWords
    \/ SomeTtsResponse
    \/ AdvanceTimer(MaxSessions)

SpecGuest == InitGuest /\ [][NextGuest]_vars

\* C28 (as claimed): while the user is unauthenticated, a started session has at
\* most 2 word items and at most 2 sentence items, whichever entry point
\* started it.
C28_GuestSessionWithinCap ==
    (~isLoggedIn /\ currentPage = "page-dictation")
        => /\ Len(SelectSeq(items, LAMBDA it : it.type = "word")) <= GuestMax
           /\ Len(SelectSeq(items, LAMBDA it : it.type = "sentence")) <= GuestMax

(* ------------------------ results against items ------------------------- *)
\* C29 (as claimed): in every reachable state results has as many entries as
\* items and results[i] carries the text of items[i], also while
\* startDictationFromSelection waits for its audio.
C29_ResultsMirrorItems ==
    /\ Len(results) = Len(items)
    /\ \A k \in 1..Len(results) : results[k].text = items[k].text

(* ---------------------- the statistics page ----------------------------- *)
\* avgAccuracy of updateStatsDisplay: stats.sessions > 0
\* ? Math.round(stats.correct / (stats.correct + stats.wrong) * 100) : 0,
\* where 0 / 0 is NaN and Math.round(NaN) is NaN
AvgAccuracy(stats) ==
    IF stats.sessions > 0
    THEN IF stats.correct + stats.wrong = 0 THEN NaN
         ELSE Num(RoundPct(stats.correct, stats.correct + stats.wrong))
    ELSE Num(0)

\* C30 (as claimed): the average accuracy updateStatsDisplay computes from the
\* statistics, which it does at the end of every recordSession, is an integer
\* in 0..100: the divisor correct + wrong is non-zero or the value is 0.
C30_AverageAccuracyIsPercent ==
    /\ ~AvgAccuracy(statistics).nan
    /\ AvgAccuracy(statistics).n \in 0..100
====
